---- MODULE Spec2Model ----
(***************************************************************************)
(* Attendance extraction pipeline of src/processor.py                      *)
(* (AttendanceProcessor.process and the stages it calls) together with the *)
(* ShiftConfig predicates of src/config.py.                                *)
(*                                                                         *)
(* Timestamps are integers: seconds since 00:00:00 of day 0.  A time of    *)
(* day is the number of seconds since midnight (datetime.time compares     *)
(* exactly like that number).  A formatted time string '%H:%M:%S' is the   *)
(* triple <<hour, minute, second>>; the empty string is <<>>.              *)
(***************************************************************************)
EXTENDS Integers, Sequences, FiniteSets, TLC

VARIABLES
    config,       \* the RuleConfig held by the processor (self.config)
    input,        \* df as returned by _load_excel
    swipes,       \* df after _filter_valid_status and _filter_valid_users
    bursts,       \* df as returned by _detect_bursts
    shifts,       \* df inside / as returned by _detect_shift_instances
    records,      \* df as returned by _extract_attendance_events
    pc,           \* position inside process() / _detect_shift_instances
    user_pos,     \* index into df['Name'].unique() of the user being scanned
    i,            \* scan pointer of the while loop (1-based; user_df position)
    instance_id,  \* running instance counter of _detect_shift_instances
    opened,       \* history: the instances opened so far, in order
    skipped,      \* history: rows of shifts the scan pointer passed as orphans
    call,         \* the method called directly (as the unit tests do) and its arguments
    ret           \* the value that call returned

vars == << config, input, swipes, bursts, shifts, records, pc,
           user_pos, i, instance_id, opened, skipped, call, ret >>

----------------------------------------------------------------------------
(* Time arithmetic *)

SecondsPerMinute == 60
SecondsPerHour == 3600
SecondsPerDay == 24 * SecondsPerHour

\* datetime.time(h, m, s) as seconds of the day; also time_to_seconds
time_to_seconds(h, m, s) == h * SecondsPerHour + m * SecondsPerMinute + s

\* datetime.combine(date, time)
Combine(date, t) == date * SecondsPerDay + t

\* Timestamp.date() and Timestamp.time()
DateOf(ts) == ts \div SecondsPerDay
TimeOf(ts) == ts % SecondsPerDay

\* Timestamp.strftime('%H:%M:%S')
Strftime(ts) ==
    LET t == TimeOf(ts)
    IN  << t \div SecondsPerHour,
           (t % SecondsPerHour) \div SecondsPerMinute,
           t % SecondsPerMinute >>

Blank == << >>

\* Python's None for a time / date / instance id, and for a shift code
NoneVal == 0 - 1
NoneCode == "None"

Abs(x) == IF x < 0 THEN 0 - x ELSE x

SetMin(S) == CHOOSE x \in S : \A y \in S : x <= y
SetMax(S) == CHOOSE x \in S : \A y \in S : x >= y

----------------------------------------------------------------------------
(* ShiftConfig / RuleConfig (src/config.py) *)

\* iteration order of config.shifts (dict filled in this order)
ShiftCodes == << "A", "B", "C" >>

ShiftA ==
    [ name |-> "A", display_name |-> "Morning",
      check_in_start  |-> time_to_seconds(5, 30, 0),
      check_in_end    |-> time_to_seconds(6, 35, 0),
      check_out_start |-> time_to_seconds(13, 30, 0),
      check_out_end   |-> time_to_seconds(14, 35, 0),
      break_search_start |-> time_to_seconds(9, 50, 0),
      break_search_end   |-> time_to_seconds(10, 35, 0),
      break_out_checkpoint |-> time_to_seconds(10, 0, 0),
      midpoint |-> time_to_seconds(10, 15, 0),
      minimum_break_gap_minutes |-> 5,
      shift_start |-> time_to_seconds(6, 0, 0),
      check_in_on_time_cutoff |-> time_to_seconds(6, 4, 59),
      check_in_late_threshold |-> time_to_seconds(6, 5, 0),
      break_end_time |-> time_to_seconds(10, 30, 0),
      break_in_on_time_cutoff |-> time_to_seconds(10, 34, 59),
      break_in_late_threshold |-> time_to_seconds(10, 35, 0) ]

ShiftB ==
    [ name |-> "B", display_name |-> "Afternoon",
      check_in_start  |-> time_to_seconds(13, 30, 0),
      check_in_end    |-> time_to_seconds(14, 35, 0),
      check_out_start |-> time_to_seconds(21, 30, 0),
      check_out_end   |-> time_to_seconds(22, 35, 0),
      break_search_start |-> time_to_seconds(17, 50, 0),
      break_search_end   |-> time_to_seconds(18, 35, 0),
      break_out_checkpoint |-> time_to_seconds(18, 0, 0),
      midpoint |-> time_to_seconds(18, 15, 0),
      minimum_break_gap_minutes |-> 5,
      shift_start |-> time_to_seconds(14, 0, 0),
      check_in_on_time_cutoff |-> time_to_seconds(14, 4, 59),
      check_in_late_threshold |-> time_to_seconds(14, 5, 0),
      break_end_time |-> time_to_seconds(18, 30, 0),
      break_in_on_time_cutoff |-> time_to_seconds(18, 34, 59),
      break_in_late_threshold |-> time_to_seconds(18, 35, 0) ]

ShiftC ==
    [ name |-> "C", display_name |-> "Night",
      check_in_start  |-> time_to_seconds(21, 30, 0),
      check_in_end    |-> time_to_seconds(22, 35, 0),
      check_out_start |-> time_to_seconds(5, 30, 0),
      check_out_end   |-> time_to_seconds(6, 35, 0),
      break_search_start |-> time_to_seconds(1, 50, 0),
      break_search_end   |-> time_to_seconds(2, 50, 0),
      break_out_checkpoint |-> time_to_seconds(2, 0, 0),
      midpoint |-> time_to_seconds(2, 22, 30),
      minimum_break_gap_minutes |-> 5,
      shift_start |-> time_to_seconds(22, 0, 0),
      check_in_on_time_cutoff |-> time_to_seconds(22, 4, 59),
      check_in_late_threshold |-> time_to_seconds(22, 5, 0),
      break_end_time |-> time_to_seconds(2, 45, 0),
      break_in_on_time_cutoff |-> time_to_seconds(2, 49, 59),
      break_in_late_threshold |-> time_to_seconds(2, 50, 0) ]

\* Night shift whose break-search window wraps midnight, midpoint 00:00:00
ShiftCMidnightBreak ==
    [ ShiftC EXCEPT !.break_search_start = time_to_seconds(23, 30, 0),
                    !.break_search_end   = time_to_seconds(0, 30, 0),
                    !.break_out_checkpoint = time_to_seconds(23, 45, 0),
                    !.midpoint = time_to_seconds(0, 0, 0),
                    !.break_end_time = time_to_seconds(0, 15, 0),
                    !.break_in_on_time_cutoff = time_to_seconds(0, 19, 59),
                    !.break_in_late_threshold = time_to_seconds(0, 20, 0) ]

\* Night shift whose break-search window wraps midnight, midpoint 23:56:00
ShiftCLateBreak ==
    [ ShiftCMidnightBreak EXCEPT !.midpoint = time_to_seconds(23, 56, 0) ]

ValidUsers ==
    [ Silver_Bui |-> [ output_name |-> "Bui Duc Toan", output_id |-> "TPL0001" ],
      Capone     |-> [ output_name |-> "Pham Tan Phat", output_id |-> "TPL0002" ] ]

\* Morning shift whose check-out window opens after shift B's check-in window
ShiftAStaggered ==
    [ ShiftA EXCEPT !.check_out_start = time_to_seconds(13, 45, 0) ]

RuleConfig(shiftA, shiftC) ==
    [ burst_threshold_minutes |-> 2,
      valid_users |-> ValidUsers,
      shifts |-> [ A |-> shiftA, B |-> ShiftB, C |-> shiftC ],
      status_filter |-> "Success" ]

DefaultConfig == RuleConfig(ShiftA, ShiftC)

\* shift C with a check-in window inside shift A's check-in window
ShiftCOverlapping ==
    [ ShiftC EXCEPT !.check_in_start = time_to_seconds(5, 50, 0),
                    !.check_in_end = time_to_seconds(6, 5, 0) ]
OverlapConfig == RuleConfig(ShiftA, ShiftCOverlapping)

\* shift B configured as a night shift: check-in 21:30-22:35, check-out 05:30-06:35
ShiftBNight ==
    [ ShiftB EXCEPT !.check_in_start = time_to_seconds(21, 30, 0),
                    !.check_in_end = time_to_seconds(22, 35, 0),
                    !.check_out_start = time_to_seconds(5, 30, 0),
                    !.check_out_end = time_to_seconds(6, 35, 0) ]
NightBConfig == [ DefaultConfig EXCEPT !.shifts.B = ShiftBNight ]

\* shift A with the break-in cutoff in the middle of the break search window
ShiftAEarlyCutoff ==
    [ ShiftA EXCEPT !.break_end_time = time_to_seconds(10, 15, 0),
                    !.break_in_on_time_cutoff = time_to_seconds(10, 20, 0),
                    !.break_in_late_threshold = time_to_seconds(10, 20, 1) ]
EarlyCutoffConfig == RuleConfig(ShiftAEarlyCutoff, ShiftC)
StaggeredConfig == RuleConfig(ShiftAStaggered, ShiftC)
MidnightBreakConfig == RuleConfig(ShiftA, ShiftCMidnightBreak)
LateBreakConfig == RuleConfig(ShiftA, ShiftCLateBreak)

\* faulty variant of _time_in_range: a range whose start is after its end is not wrapped
_time_in_range_NoWrap(t, start, end) == t >= start /\ t <= end

\* faulty variant of determine_check_in_status: the late test comes first
determine_check_in_status_LateFirst(shift_cfg, check_in_time) ==
    IF check_in_time = NoneVal THEN ""
    ELSE IF check_in_time >= shift_cfg.check_in_late_threshold THEN "Late"
    ELSE IF check_in_time <= shift_cfg.check_in_on_time_cutoff THEN "On Time"
    ELSE ""

\* ShiftConfig.is_in_check_in_range
is_in_check_in_range(shift_cfg, t) ==
    IF shift_cfg.check_in_start <= shift_cfg.check_in_end
    THEN shift_cfg.check_in_start <= t /\ t <= shift_cfg.check_in_end
    ELSE t >= shift_cfg.check_in_start \/ t <= shift_cfg.check_in_end

\* AttendanceProcessor._time_in_range, for one element of the series
_time_in_range(t, start, end) ==
    IF start <= end
    THEN t >= start /\ t <= end
    ELSE t >= start \/ t <= end

\* ShiftConfig.determine_check_in_status
determine_check_in_status(shift_cfg, check_in_time) ==
    IF check_in_time = NoneVal THEN ""
    ELSE IF check_in_time <= shift_cfg.check_in_on_time_cutoff THEN "On Time"
    ELSE IF check_in_time >= shift_cfg.check_in_late_threshold THEN "Late"
    ELSE ""

\* ShiftConfig.determine_break_in_status
determine_break_in_status(shift_cfg, break_in_time) ==
    IF break_in_time = NoneVal THEN ""
    ELSE IF break_in_time <= shift_cfg.break_in_on_time_cutoff THEN "On Time"
    ELSE IF break_in_time >= shift_cfg.break_in_late_threshold THEN "Late"
    ELSE ""

----------------------------------------------------------------------------
(* DataFrame helpers: a DataFrame is a sequence of rows (records) *)

\* order of Python strings for the user names that occur
NameRank(n) ==
    CASE n = "Capone" -> 1
      [] n = "Silver_Bui" -> 2
      [] OTHER -> 3

\* rows of s whose position is in the set P, in the order of s (boolean-mask indexing)
RECURSIVE Pick(_, _)
Pick(s, P) ==
    IF s = << >> THEN << >>
    ELSE LET n == Len(s)
             front == Pick(SubSeq(s, 1, n - 1), P)
         IN  IF n \in P THEN Append(front, s[n]) ELSE front

\* lexicographic order of two-column sort keys
KeyLess(a, b) == a[1] < b[1] \/ (a[1] = b[1] /\ a[2] < b[2])

\* DataFrame.sort_values(...).reset_index(drop=True): rows of s in ascending order of
\* keys[k] (the key of row k), rows of equal key in their original order
SortValues(s, keys) ==
    LET n == Len(s)
        Rank(j) == Cardinality({ m \in 1..n :
                        KeyLess(keys[m], keys[j]) \/ (keys[m] = keys[j] /\ m <= j) })
    IN  [ k \in 1..n |-> s[CHOOSE j \in 1..n : Rank(j) = k] ]

\* df['Name'].unique(): the names in order of first appearance
RECURSIVE UniqueNames(_)
UniqueNames(s) ==
    IF s = << >> THEN << >>
    ELSE LET front == UniqueNames(SubSeq(s, 1, Len(s) - 1))
         IN  IF \E k \in 1..Len(front) : front[k] = s[Len(s)].Name
             THEN front
             ELSE Append(front, s[Len(s)].Name)

\* faulty variant of UserIndex: the user mask is left out
UserIndex_AllRows(s, username) == [ k \in 1..Len(s) |-> k ]

\* positions of the rows of user `username`, ascending (user_df.index)
UserIndex(s, username) ==
    Pick([k \in 1..Len(s) |-> k], { k \in 1..Len(s) : s[k].Name = username })

----------------------------------------------------------------------------
(* Loader order and the two filters *)

\* sort key of _load_excel: ['Name', 'timestamp']
LoadKey(r) == << NameRank(r.Name), r.timestamp >>

\* faulty variant of _filter_valid_status: every status is kept
_filter_valid_status_KeepAll(d, cfg) == d

\* AttendanceProcessor._filter_valid_status
_filter_valid_status(d, cfg) ==
    Pick(d, { k \in 1..Len(d) : d[k].Status = cfg.status_filter })

\* AttendanceProcessor._filter_valid_users
_filter_valid_users(d, cfg) ==
    LET kept == Pick(d, { k \in 1..Len(d) : d[k].Name \in DOMAIN cfg.valid_users })
    IN  [ k \in 1..Len(kept) |->
            [ Name |-> kept[k].Name,
              timestamp |-> kept[k].timestamp,
              Status |-> kept[k].Status,
              output_name |-> cfg.valid_users[kept[k].Name].output_name,
              output_id |-> cfg.valid_users[kept[k].Name].output_id ] ]

----------------------------------------------------------------------------
(* Burst consolidation *)

\* position of the previous row of the same Name, 0 if there is none
PrevSameName(d, k) ==
    LET P == { j \in 1..(k - 1) : d[j].Name = d[k].Name }
    IN  IF P = {} THEN 0 ELSE SetMax(P)

\* faulty variant of new_burst: a gap equal to the threshold starts a new burst
new_burst_AtThreshold(d, k, cfg) ==
    LET p == PrevSameName(d, k)
    IN  \/ p = 0
        \/ d[k].timestamp - d[p].timestamp >= cfg.burst_threshold_minutes * SecondsPerMinute

\* df['new_burst']: time_diff > threshold, or time_diff is NaT (first row of the group)
new_burst(d, k, cfg) ==
    LET p == PrevSameName(d, k)
    IN  \/ p = 0
        \/ d[k].timestamp - d[p].timestamp > cfg.burst_threshold_minutes * SecondsPerMinute

\* df['burst_id']: cumulative sum of new_burst inside the Name group
burst_id(d, k, cfg) ==
    Cardinality({ j \in 1..k : d[j].Name = d[k].Name /\ new_burst(d, j, cfg) })

\* AttendanceProcessor._detect_bursts: one row per (Name, burst_id) group, groups in
\* order of first appearance (sort=False)
_detect_bursts(d, cfg) ==
    LET firsts == { k \in 1..Len(d) :
                      \A j \in 1..(k - 1) :
                          ~(d[j].Name = d[k].Name /\ burst_id(d, j, cfg) = burst_id(d, k, cfg)) }
        heads == Pick([k \in 1..Len(d) |-> k], firsts)
        Members(k) == { j \in 1..Len(d) :
                          d[j].Name = d[k].Name /\ burst_id(d, j, cfg) = burst_id(d, k, cfg) }
    IN  [ g \in 1..Len(heads) |->
            LET k == heads[g]
            IN  [ Name |-> d[k].Name,
                  burst_id |-> burst_id(d, k, cfg),
                  burst_start |-> SetMin({ d[j].timestamp : j \in Members(k) }),
                  burst_end |-> SetMax({ d[j].timestamp : j \in Members(k) }),
                  output_name |-> d[k].output_name,
                  output_id |-> d[k].output_id ] ]

----------------------------------------------------------------------------
(* Shift instance segmentation: the pieces of one iteration of the scan loop *)

\* sort key of _detect_shift_instances: ['Name', 'burst_start']
ShiftKey(r) == << NameRank(r.Name), r.burst_start >>

\* the frame at the start of the scan: sorted, with the three empty columns
InitShiftColumns(d) ==
    LET sorted == SortValues(d, [k \in 1..Len(d) |-> ShiftKey(d[k])])
    IN  [ k \in 1..Len(sorted) |->
            [ Name |-> sorted[k].Name,
              burst_id |-> sorted[k].burst_id,
              burst_start |-> sorted[k].burst_start,
              burst_end |-> sorted[k].burst_end,
              output_name |-> sorted[k].output_name,
              output_id |-> sorted[k].output_id,
              shift_code |-> NoneCode,
              shift_date |-> NoneVal,
              shift_instance_id |-> NoneVal ] ]

\* faulty variant of MatchCheckIn: a time inside some shift's check-out range is given to that shift
MatchCheckIn_CheckOutFirst(cfg, t) ==
    LET outs == { c \in 1..Len(ShiftCodes) :
                    _time_in_range(t, cfg.shifts[ShiftCodes[c]].check_out_start,
                                      cfg.shifts[ShiftCodes[c]].check_out_end) }
        hits == { c \in 1..Len(ShiftCodes) :
                    is_in_check_in_range(cfg.shifts[ShiftCodes[c]], t) }
    IN  IF outs # {} THEN ShiftCodes[SetMin(outs)]
        ELSE IF hits = {} THEN NoneCode ELSE ShiftCodes[SetMin(hits)]

\* faulty variant of MatchCheckIn: the last matching code wins
MatchCheckIn_Last(cfg, t) ==
    LET hits == { c \in 1..Len(ShiftCodes) :
                    is_in_check_in_range(cfg.shifts[ShiftCodes[c]], t) }
    IN  IF hits = {} THEN NoneCode ELSE ShiftCodes[SetMax(hits)]

\* the for-loop over config.shifts with break: first code whose check-in range holds t
MatchCheckIn(cfg, t) ==
    LET hits == { c \in 1..Len(ShiftCodes) :
                    is_in_check_in_range(cfg.shifts[ShiftCodes[c]], t) }
    IN  IF hits = {} THEN NoneCode ELSE ShiftCodes[SetMin(hits)]

\* faulty variant of WindowEnd: the night shift's window ends at midnight after the check-in
WindowEnd_Midnight(cfg, shift_code, shift_date) ==
    IF shift_code = "C"
    THEN Combine(shift_date + 1, 0)
    ELSE Combine(shift_date, cfg.shifts[shift_code].check_out_end)

\* window_end of an instance of shift_code opened on shift_date
WindowEnd(cfg, shift_code, shift_date) ==
    IF shift_code = "C"
    THEN Combine(shift_date + 1, cfg.shifts[shift_code].check_out_end)
    ELSE Combine(shift_date, cfg.shifts[shift_code].check_out_end)

\* in_current_checkout of the inner loop
InCurrentCheckout(cfg, shift_code, curr_time) ==
    _time_in_range(curr_time, cfg.shifts[shift_code].check_out_start,
                              cfg.shifts[shift_code].check_out_end)

\* faulty variant of WouldStartDifferentShift: no priority for the current shift's check-out range
WouldStartDifferentShift_NoPriority(cfg, shift_code, curr_time, j, at) ==
    /\ j > at
    /\ \E c \in 1..Len(ShiftCodes) :
          /\ ShiftCodes[c] # shift_code
          /\ is_in_check_in_range(cfg.shifts[ShiftCodes[c]], curr_time)

\* would_start_different_shift of the inner loop, for position j of an instance opened at i
WouldStartDifferentShift(cfg, shift_code, curr_time, j, at) ==
    /\ ~InCurrentCheckout(cfg, shift_code, curr_time)
    /\ j > at
    /\ \E c \in 1..Len(ShiftCodes) :
          /\ ShiftCodes[c] # shift_code
          /\ is_in_check_in_range(cfg.shifts[ShiftCodes[c]], curr_time)

\* whether the inner loop assigns position j (of the user's rows idx) to the instance
Absorbs(cfg, d, idx, shift_code, shift_date, j, at) ==
    LET curr_swipe == d[idx[j]].burst_start
    IN  /\ curr_swipe <= WindowEnd(cfg, shift_code, shift_date)
        /\ ~WouldStartDifferentShift(cfg, shift_code, TimeOf(curr_swipe), j, at)

\* value of j when the inner while loop ends
AbsorbStop(cfg, d, idx, shift_code, shift_date, at) ==
    SetMin({ j \in at..(Len(idx) + 1) :
               j = Len(idx) + 1 \/ ~Absorbs(cfg, d, idx, shift_code, shift_date, j, at) })

\* faulty variant of AssignInstance: the instance counter is not used
AssignInstance_SharedId(d, idx, at, stop, shift_code, shift_date, id) ==
    [ k \in 1..Len(d) |->
        IF \E j \in at..(stop - 1) : idx[j] = k
        THEN [ d[k] EXCEPT !.shift_code = shift_code,
                           !.shift_date = shift_date,
                           !.shift_instance_id = 0 ]
        ELSE d[k] ]

\* faulty variant of AssignInstance: each row gets the calendar date of its own burst
AssignInstance_OwnDate(d, idx, at, stop, shift_code, shift_date, id) ==
    [ k \in 1..Len(d) |->
        IF \E j \in at..(stop - 1) : idx[j] = k
        THEN [ d[k] EXCEPT !.shift_code = shift_code,
                           !.shift_date = DateOf(d[k].burst_start),
                           !.shift_instance_id = id ]
        ELSE d[k] ]

\* the frame after the inner loop assigned rows idx[at], ..., idx[stop - 1]
AssignInstance(d, idx, at, stop, shift_code, shift_date, id) ==
    [ k \in 1..Len(d) |->
        IF \E j \in at..(stop - 1) : idx[j] = k
        THEN [ d[k] EXCEPT !.shift_code = shift_code,
                           !.shift_date = shift_date,
                           !.shift_instance_id = id ]
        ELSE d[k] ]

\* faulty variant of NextScanPosition: the scan resumes right after the check-in burst
NextScanPosition_Rescan(at, stop) == at + 1

\* i = j: the scan resumes at the first row the inner loop did not assign
NextScanPosition(at, stop) == stop

\* the orphan filter at the end of _detect_shift_instances
DropOrphans(d) == Pick(d, { k \in 1..Len(d) : d[k].shift_code # NoneCode })

----------------------------------------------------------------------------
(* Event extraction for one shift instance (group = its rows, in frame order) *)

\* faulty variant of _find_check_in: the earliest burst of the instance, in the window or not
_find_check_in_Earliest(group, shift_cfg) ==
    LET ts == SetMin({ group[k].burst_start : k \in 1..Len(group) })
    IN  [ str |-> Strftime(ts), time |-> TimeOf(ts) ]

\* faulty variant of _find_check_out: the window is tested on the burst's start
_find_check_out_ByStart(group, shift_cfg) ==
    LET cand == { k \in 1..Len(group) :
                    _time_in_range(TimeOf(group[k].burst_start),
                                   shift_cfg.check_out_start, shift_cfg.check_out_end) }
    IN  IF cand # {}
        THEN Strftime(SetMax({ group[k].burst_end : k \in cand }))
        ELSE Blank

\* faulty variant of _find_check_in: the latest start in the check-in window
_find_check_in_Latest(group, shift_cfg) ==
    LET cand == { k \in 1..Len(group) :
                    _time_in_range(TimeOf(group[k].burst_start),
                                   shift_cfg.check_in_start, shift_cfg.check_in_end) }
    IN  IF cand # {}
        THEN LET ts == SetMax({ group[k].burst_start : k \in cand })
             IN  [ str |-> Strftime(ts), time |-> TimeOf(ts) ]
        ELSE [ str |-> Blank, time |-> NoneVal ]

\* AttendanceProcessor._find_check_in: (time string, time object)
_find_check_in(group, shift_cfg) ==
    LET cand == { k \in 1..Len(group) :
                    _time_in_range(TimeOf(group[k].burst_start),
                                   shift_cfg.check_in_start, shift_cfg.check_in_end) }
    IN  IF cand # {}
        THEN LET ts == SetMin({ group[k].burst_start : k \in cand })
             IN  [ str |-> Strftime(ts), time |-> TimeOf(ts) ]
        ELSE [ str |-> Blank, time |-> NoneVal ]

\* AttendanceProcessor._find_check_out
_find_check_out(group, shift_cfg) ==
    LET cand == { k \in 1..Len(group) :
                    _time_in_range(TimeOf(group[k].burst_end),
                                   shift_cfg.check_out_start, shift_cfg.check_out_end) }
    IN  IF cand # {}
        THEN Strftime(SetMax({ group[k].burst_end : k \in cand }))
        ELSE Blank

\* break_swipes: the rows with start or end inside the break search window, by burst_start
BreakSwipes(group, shift_cfg) ==
    LET mask == { k \in 1..Len(group) :
                    \/ _time_in_range(TimeOf(group[k].burst_start),
                                      shift_cfg.break_search_start, shift_cfg.break_search_end)
                    \/ _time_in_range(TimeOf(group[k].burst_end),
                                      shift_cfg.break_search_start, shift_cfg.break_search_end) }
        kept == Pick(group, mask)
    IN  SortValues(kept, [k \in 1..Len(kept) |-> << kept[k].burst_start, 0 >>])

\* positions k of bs whose gap to row k + 1 is at least min_gap minutes
\* (gap_minutes = (next_burst_start - burst_end).total_seconds() / 60 >= min_gap)
QualifyingGaps(bs, min_gap) ==
    { k \in 1..(Len(bs) - 1) :
        bs[k + 1].burst_start - bs[k].burst_end >= min_gap * SecondsPerMinute }

\* distance in seconds of day between the time of ts and the anchor time
Distance(ts, anchor) == Abs(TimeOf(ts) - anchor)

\* faulty variant of BestOutGap: an equally close later gap replaces the current best
BestOutGap_LastWins(bs, Q, checkpoint) ==
    CHOOSE k \in Q : \A m \in Q :
        \/ Distance(bs[k].burst_end, checkpoint) < Distance(bs[m].burst_end, checkpoint)
        \/ Distance(bs[k].burst_end, checkpoint) = Distance(bs[m].burst_end, checkpoint) /\ k >= m

\* best_out_gap: first qualifying gap whose burst_end is closest to the checkpoint
BestOutGap(bs, Q, checkpoint) ==
    CHOOSE k \in Q : \A m \in Q :
        \/ Distance(bs[k].burst_end, checkpoint) < Distance(bs[m].burst_end, checkpoint)
        \/ Distance(bs[k].burst_end, checkpoint) = Distance(bs[m].burst_end, checkpoint) /\ k <= m

\* best_in_gap: first qualifying gap whose following burst_start is closest to the cutoff
BestInGap(bs, Q, cutoff) ==
    CHOOSE k \in Q : \A m \in Q :
        \/ Distance(bs[k + 1].burst_start, cutoff) < Distance(bs[m + 1].burst_start, cutoff)
        \/ Distance(bs[k + 1].burst_start, cutoff) = Distance(bs[m + 1].burst_start, cutoff) /\ k <= m

BreakResult(out, in, in_time) == [ break_out |-> out, break_in |-> in, break_in_time |-> in_time ]

\* before_midpoint and after_midpoint of the fallback
BeforeMidpoint(bs, midpoint) == Pick(bs, { k \in 1..Len(bs) : TimeOf(bs[k].burst_end) <= midpoint })
AfterMidpoint(bs, midpoint) == Pick(bs, { k \in 1..Len(bs) : TimeOf(bs[k].burst_start) > midpoint })

\* faulty variant of InternalGap: the gap search inside one side is left out
InternalGap_Ignored(side, min_gap, fallback) == fallback

\* faulty variant of InternalGap: the gap in seconds is compared with min_gap
InternalGap_Seconds(side, min_gap, fallback) ==
    LET sorted == SortValues(side, [k \in 1..Len(side) |-> << side[k].burst_start, 0 >>])
        found == { k \in 1..(Len(sorted) - 1) :
                     sorted[k + 1].burst_start - sorted[k].burst_end >= min_gap }
    IN  IF Len(side) >= 2 /\ found # {}
        THEN LET idx == SetMin(found)
                 break_in_ts == sorted[idx + 1].burst_start
             IN  BreakResult(Strftime(sorted[idx].burst_end), Strftime(break_in_ts),
                             TimeOf(break_in_ts))
        ELSE fallback

\* the gap search inside one side of the midpoint: result of the first gap, or the
\* fallback when the side has fewer than two rows or no qualifying gap
InternalGap(side, min_gap, fallback) ==
    LET sorted == SortValues(side, [k \in 1..Len(side) |-> << side[k].burst_start, 0 >>])
        found == QualifyingGaps(sorted, min_gap)
    IN  IF Len(side) >= 2 /\ found # {}
        THEN LET idx == SetMin(found)
                 break_in_ts == sorted[idx + 1].burst_start
             IN  BreakResult(Strftime(sorted[idx].burst_end), Strftime(break_in_ts),
                             TimeOf(break_in_ts))
        ELSE fallback

\* faulty variant of MidpointLogic: with swipes on both sides, the earliest end before the
\* midpoint and the latest start after it are taken
MidpointLogic_Outermost(bs, shift_cfg) ==
    LET before == BeforeMidpoint(bs, shift_cfg.midpoint)
        after == AfterMidpoint(bs, shift_cfg.midpoint)
        min_gap == shift_cfg.minimum_break_gap_minutes
    IN  IF Len(before) > 0 /\ Len(after) > 0
        THEN LET break_out_ts == SetMin({ before[k].burst_end : k \in 1..Len(before) })
                 break_in_ts == SetMax({ after[k].burst_start : k \in 1..Len(after) })
             IN  BreakResult(Strftime(break_out_ts), Strftime(break_in_ts), TimeOf(break_in_ts))
        ELSE IF Len(before) > 0 /\ Len(after) = 0
        THEN InternalGap(before, min_gap,
                 BreakResult(Strftime(SetMax({ before[k].burst_end : k \in 1..Len(before) })),
                             Blank, NoneVal))
        ELSE IF Len(before) = 0 /\ Len(after) > 0
        THEN InternalGap(after, min_gap,
                 LET break_in_ts == SetMin({ after[k].burst_start : k \in 1..Len(after) })
                 IN  BreakResult(Blank, Strftime(break_in_ts), TimeOf(break_in_ts)))
        ELSE BreakResult(Blank, Blank, NoneVal)

\* PRIORITY 2 and 3 of _detect_breaks: the midpoint logic
MidpointLogic(bs, shift_cfg) ==
    LET before == BeforeMidpoint(bs, shift_cfg.midpoint)
        after == AfterMidpoint(bs, shift_cfg.midpoint)
        min_gap == shift_cfg.minimum_break_gap_minutes
    IN  IF Len(before) > 0 /\ Len(after) > 0
        THEN LET break_out_ts == SetMax({ before[k].burst_end : k \in 1..Len(before) })
                 break_in_ts == SetMin({ after[k].burst_start : k \in 1..Len(after) })
             IN  BreakResult(Strftime(break_out_ts), Strftime(break_in_ts), TimeOf(break_in_ts))
        ELSE IF Len(before) > 0 /\ Len(after) = 0
        THEN InternalGap(before, min_gap,
                 BreakResult(Strftime(SetMax({ before[k].burst_end : k \in 1..Len(before) })),
                             Blank, NoneVal))
        ELSE IF Len(before) = 0 /\ Len(after) > 0
        THEN InternalGap(after, min_gap,
                 LET break_in_ts == SetMin({ after[k].burst_start : k \in 1..Len(after) })
                 IN  BreakResult(Blank, Strftime(break_in_ts), TimeOf(break_in_ts)))
        ELSE BreakResult(Blank, Blank, NoneVal)

\* faulty variant of GapDetection: both endpoints come from the gap chosen for Break Time Out
GapDetection_OneGap(bs, Q, shift_cfg) ==
    LET best_out_gap == BestOutGap(bs, Q, shift_cfg.break_out_checkpoint)
        break_out_ts == bs[best_out_gap].burst_end
        break_in_ts == bs[best_out_gap + 1].burst_start
    IN  BreakResult(Strftime(break_out_ts), Strftime(break_in_ts), TimeOf(break_in_ts))

\* PRIORITY 1 of _detect_breaks: independent selection over the qualifying gaps
GapDetection(bs, Q, shift_cfg) ==
    LET best_out_gap == BestOutGap(bs, Q, shift_cfg.break_out_checkpoint)
        best_in_gap == BestInGap(bs, Q, shift_cfg.break_in_on_time_cutoff)
        break_out_ts == bs[best_out_gap].burst_end
        break_in_ts == bs[best_in_gap + 1].burst_start
    IN  BreakResult(Strftime(break_out_ts), Strftime(break_in_ts), TimeOf(break_in_ts))

\* faulty variant of _detect_breaks: the midpoint logic runs without the gap detection
_detect_breaks_MidpointOnly(group, shift_cfg) ==
    LET break_swipes == BreakSwipes(group, shift_cfg)
    IN  IF Len(break_swipes) = 0
        THEN BreakResult(Blank, Blank, NoneVal)
        ELSE MidpointLogic(break_swipes, shift_cfg)

\* AttendanceProcessor._detect_breaks
_detect_breaks(group, shift_cfg) ==
    LET break_swipes == BreakSwipes(group, shift_cfg)
        qualifying_gaps == QualifyingGaps(break_swipes, shift_cfg.minimum_break_gap_minutes)
    IN  IF Len(break_swipes) = 0
        THEN BreakResult(Blank, Blank, NoneVal)
        ELSE IF Len(break_swipes) >= 2 /\ qualifying_gaps # {}
        THEN GapDetection(break_swipes, qualifying_gaps, shift_cfg)
        ELSE MidpointLogic(break_swipes, shift_cfg)

\* the dictionary appended to results for one instance
AttendanceRecord(group, cfg) ==
    LET shift_cfg == cfg.shifts[group[1].shift_code]
        check_in == _find_check_in(group, shift_cfg)
        breaks == _detect_breaks(group, shift_cfg)
    IN  [ Date |-> group[1].shift_date,
          ID |-> group[1].output_id,
          Name |-> group[1].output_name,
          Shift |-> shift_cfg.display_name,
          CheckIn |-> check_in.str,
          CheckInStatus |-> IF check_in.time # NoneVal
                            THEN determine_check_in_status(shift_cfg, check_in.time) ELSE "",
          BreakTimeOut |-> breaks.break_out,
          BreakTimeIn |-> breaks.break_in,
          BreakTimeInStatus |-> IF breaks.break_in_time # NoneVal
                                THEN determine_break_in_status(shift_cfg, breaks.break_in_time)
                                ELSE "",
          CheckOutRecord |-> _find_check_out(group, shift_cfg) ]

\* the group keys of df.groupby('shift_instance_id'), ascending
InstanceIds(d) ==
    LET ids == { d[k].shift_instance_id : k \in 1..Len(d) }
        Rank(x) == Cardinality({ y \in ids : y <= x })
    IN  [ n \in 1..Cardinality(ids) |-> CHOOSE x \in ids : Rank(x) = n ]

\* the rows of one group, in frame order
Group(d, id) == Pick(d, { k \in 1..Len(d) : d[k].shift_instance_id = id })

\* faulty variant of _extract_attendance_events: one group per person, day and shift
_extract_attendance_events_ByDay(d, cfg) ==
    LET SameDay(a, b) == /\ a.Name = b.Name
                         /\ a.shift_date = b.shift_date
                         /\ a.shift_code = b.shift_code
        first == { k \in 1..Len(d) : \A m \in 1..(k - 1) : ~ SameDay(d[m], d[k]) }
        heads == Pick(d, first)
    IN  [ n \in 1..Len(heads) |->
            AttendanceRecord(Pick(d, { k \in 1..Len(d) : SameDay(d[k], heads[n]) }), cfg) ]

\* AttendanceProcessor._extract_attendance_events
_extract_attendance_events(d, cfg) ==
    LET ids == InstanceIds(d)
    IN  [ n \in 1..Len(ids) |-> AttendanceRecord(Group(d, ids[n]), cfg) ]

----------------------------------------------------------------------------
(* Inputs: the frames _load_excel can return, drawn from a finite universe *)

MaxSwipes == 4
MaxInstances == 12
MaxBurstSwipes == 5

Rec(name, ts, status) == [ Name |-> name, timestamp |-> ts, Status |-> status ]

At(day, h, m, s) == Combine(day, time_to_seconds(h, m, s))

\* no method has been called directly
NoCall == [ fn |-> "" ]

\* all subsets of U with at most n elements
RECURSIVE SubsetsUpTo(_, _)
SubsetsUpTo(U, n) ==
    IF n = 0 THEN { {} }
    ELSE LET P == SubsetsUpTo(U, n - 1)
         IN  P \cup { s \cup {x} : s \in P, x \in U }

\* the rows of S in loader order (Name, timestamp); rows equal on both in a fixed order
OrderRecords(S) ==
    LET Less(a, b) ==
            \/ KeyLess(LoadKey(a), LoadKey(b))
            \/ LoadKey(a) = LoadKey(b) /\ a.Status = "Success" /\ b.Status # "Success"
        Rank(r) == Cardinality({ x \in S : Less(x, r) \/ x = r })
    IN  [ k \in 1..Cardinality(S) |-> CHOOSE r \in S : Rank(r) = k ]

Inputs(U, n) == { OrderRecords(S) : S \in SubsetsUpTo(U, n) }

\* two valid users over two days, plus a failed swipe and an unknown user
GeneralUniverse ==
    { Rec(n, t, "Success") :
        n \in { "Capone", "Silver_Bui" },
        t \in { At(0, 6, 0, 0), At(0, 6, 1, 0), At(0, 8, 0, 0), At(0, 14, 0, 0),
                At(0, 22, 0, 0), At(1, 2, 0, 0), At(1, 6, 3, 14) } }
    \cup { Rec("Unknown", At(0, 6, 0, 0), "Success"),
           Rec("Silver_Bui", At(0, 14, 0, 0), "Failure") }

\* swipes around the burst threshold (gaps of 120 s and 121 s) and across midnight
BurstUniverse ==
    { Rec(n, t, "Success") :
        n \in { "Capone", "Silver_Bui" },
        t \in { At(0, 6, 0, 0), At(0, 6, 2, 0), At(0, 6, 4, 1), At(0, 6, 5, 0),
                At(0, 23, 59, 0), At(1, 0, 0, 30) } }
    \cup { Rec("Unknown", At(0, 6, 1, 0), "Success"),
           Rec("Capone", At(0, 6, 1, 0), "Failure") }

\* one person: the night-shift and the overlapping-window scenarios
ShiftUniverse ==
    { Rec("Capone", t, "Success") :
        t \in { At(0, 6, 0, 0), At(0, 8, 0, 0), At(0, 13, 40, 0), At(0, 14, 0, 0),
                At(0, 21, 55, 28), At(0, 22, 0, 0),
                At(1, 2, 0, 35), At(1, 2, 44, 51), At(1, 6, 3, 14) } }

\* one person on a morning shift: swipes in and around the break search window
DayBreakUniverse ==
    { Rec("Silver_Bui", t, "Success") :
        t \in { At(0, 6, 0, 0), At(0, 9, 55, 0), At(0, 10, 5, 0), At(0, 10, 8, 0),
                At(0, 10, 12, 0), At(0, 10, 15, 0), At(0, 10, 16, 0), At(0, 10, 20, 0),
                At(0, 10, 25, 0), At(0, 10, 29, 0), At(0, 14, 0, 0) } }

\* one person on a night shift whose break is taken around midnight
NightBreakUniverse ==
    { Rec("Capone", t, "Success") :
        t \in { At(0, 22, 0, 0), At(0, 23, 53, 0), At(0, 23, 56, 0), At(0, 23, 57, 0),
                At(0, 23, 58, 0), At(1, 0, 0, 0), At(1, 0, 1, 0), At(1, 0, 4, 0) } }

----------------------------------------------------------------------------
(* State machine of process() *)

InitWith(cfgs, U, n) ==
    /\ config \in cfgs
    /\ input \in Inputs(U, n)
    /\ swipes = << >>
    /\ bursts = << >>
    /\ shifts = << >>
    /\ records = << >>
    /\ pc = "loaded"
    /\ user_pos = 0
    /\ i = 0
    /\ instance_id = 0
    /\ opened = << >>
    /\ skipped = {}
    /\ call = NoCall
    /\ ret = NoneVal

Init == InitWith({ DefaultConfig }, GeneralUniverse, MaxSwipes)

InitBursts == InitWith({ DefaultConfig }, BurstUniverse, MaxBurstSwipes)

InitShift ==
    InitWith({ DefaultConfig, StaggeredConfig }, ShiftUniverse, Cardinality(ShiftUniverse))

InitBreaks ==
    \/ InitWith({ DefaultConfig }, DayBreakUniverse, Cardinality(DayBreakUniverse))
    \/ InitWith({ MidnightBreakConfig, LateBreakConfig }, NightBreakUniverse,
                Cardinality(NightBreakUniverse))

\* process(), lines 25-27
FilterValidStatus ==
    /\ pc = "loaded"
    /\ swipes' = _filter_valid_status(input, config)
    /\ pc' = "status_filtered"
    /\ UNCHANGED << call, ret, config, input, bursts, shifts, records, user_pos, i, instance_id,
                    opened, skipped >>

\* process(), lines 29-31
FilterValidUsers ==
    /\ pc = "status_filtered"
    /\ swipes' = _filter_valid_users(swipes, config)
    /\ pc' = "users_filtered"
    /\ UNCHANGED << call, ret, config, input, bursts, shifts, records, user_pos, i, instance_id,
                    opened, skipped >>

\* process(), lines 33-35: nothing left, return
ReturnEmpty ==
    /\ pc = "users_filtered"
    /\ Len(swipes) = 0
    /\ pc' = "returned"
    /\ UNCHANGED << call, ret, config, input, swipes, bursts, shifts, records, user_pos, i,
                    instance_id, opened, skipped >>

\* faulty variant of DetectBursts: the empty frame is not returned early
DetectBursts_Unguarded ==
    /\ pc = "users_filtered"
    /\ bursts' = _detect_bursts(swipes, config)
    /\ pc' = "bursts"
    /\ UNCHANGED << call, ret, config, input, swipes, shifts, records, user_pos, i,
                    instance_id, opened, skipped >>

\* process(), lines 37-39
DetectBursts ==
    /\ pc = "users_filtered"
    /\ Len(swipes) # 0
    /\ bursts' = _detect_bursts(swipes, config)
    /\ pc' = "bursts"
    /\ UNCHANGED << call, ret, config, input, swipes, shifts, records, user_pos, i, instance_id,
                    opened, skipped >>

\* _detect_shift_instances, lines 170-184: sort, add the columns, first user
BeginShiftScan ==
    /\ pc = "bursts"
    /\ shifts' = InitShiftColumns(bursts)
    /\ instance_id' = 0
    /\ user_pos' = 1
    /\ i' = 1
    /\ pc' = "scan"
    /\ UNCHANGED << call, ret, config, input, swipes, bursts, records, opened, skipped >>

\* the user being scanned and the positions of that user's rows
Username == UniqueNames(shifts)[user_pos]
UserRows == UserIndex(shifts, Username)

\* one iteration of the while loop, lines 257-259: no check-in range matches
ScanOrphan ==
    /\ pc = "scan"
    /\ user_pos <= Len(UniqueNames(shifts))
    /\ i <= Len(UserRows)
    /\ MatchCheckIn(config, TimeOf(shifts[UserRows[i]].burst_start)) = NoneCode
    /\ i' = i + 1
    /\ skipped' = skipped \cup { UserRows[i] }
    /\ UNCHANGED << call, ret, config, input, swipes, bursts, shifts, records, pc, user_pos,
                    instance_id, opened >>

\* one iteration of the while loop, lines 197-256: open an instance and absorb
ScanCheckIn ==
    /\ pc = "scan"
    /\ user_pos <= Len(UniqueNames(shifts))
    /\ i <= Len(UserRows)
    /\ LET swipe_time == shifts[UserRows[i]].burst_start
           shift_code == MatchCheckIn(config, TimeOf(swipe_time))
           shift_date == DateOf(swipe_time)
           j == AbsorbStop(config, shifts, UserRows, shift_code, shift_date, i)
       IN  /\ shift_code # NoneCode
           /\ instance_id < MaxInstances
           /\ shifts' = AssignInstance(shifts, UserRows, i, j, shift_code, shift_date,
                                       instance_id)
           /\ opened' = Append(opened,
                               [ id |-> instance_id, Name |-> Username, row |-> UserRows[i],
                                 start |-> swipe_time, from |-> i, stop |-> j,
                                 code |-> shift_code, date |-> shift_date,
                                 window_end |-> WindowEnd(config, shift_code, shift_date) ])
           /\ instance_id' = instance_id + 1
           /\ i' = NextScanPosition(i, j)
    /\ UNCHANGED << call, ret, config, input, swipes, bursts, records, pc, user_pos, skipped >>

\* the for loop, lines 180-184: this user's rows are exhausted, next user
NextUser ==
    /\ pc = "scan"
    /\ user_pos <= Len(UniqueNames(shifts))
    /\ i > Len(UserRows)
    /\ user_pos' = user_pos + 1
    /\ i' = 1
    /\ UNCHANGED << call, ret, config, input, swipes, bursts, shifts, records, pc, instance_id,
                    opened, skipped >>

\* _detect_shift_instances, lines 261-268: all users done, drop the orphans
EndShiftScan ==
    /\ pc = "scan"
    /\ user_pos > Len(UniqueNames(shifts))
    /\ shifts' = DropOrphans(shifts)
    /\ pc' = "segmented"
    /\ UNCHANGED << call, ret, config, input, swipes, bursts, records, user_pos, i, instance_id,
                    opened, skipped >>

\* process(), lines 45-47
ExtractAttendanceEvents ==
    /\ pc = "segmented"
    /\ records' = _extract_attendance_events(shifts, config)
    /\ pc' = "extracted"
    /\ UNCHANGED << call, ret, config, input, swipes, bursts, shifts, user_pos, i, instance_id,
                    opened, skipped >>

\* process(), lines 49-51: _write_output reads df['Date'], a column that a frame built
\* from an empty list of results does not have
WriteOutput ==
    /\ pc = "extracted"
    /\ pc' = IF Len(records) = 0 THEN "KeyError" ELSE "done"
    /\ UNCHANGED << call, ret, config, input, swipes, bursts, shifts, records, user_pos, i,
                    instance_id, opened, skipped >>

Next ==
    \/ FilterValidStatus
    \/ FilterValidUsers
    \/ ReturnEmpty
    \/ DetectBursts
    \/ BeginShiftScan
    \/ ScanOrphan
    \/ ScanCheckIn
    \/ NextUser
    \/ EndShiftScan
    \/ ExtractAttendanceEvents
    \/ WriteOutput

----------------------------------------------------------------------------
(* Direct calls of the helper methods, with arguments of the caller's choice *)

MaxGroupRows == 3

\* times of day used as arguments: window bounds, cutoffs, thresholds and tested times
CallTimes ==
    { 0, time_to_seconds(5, 30, 0), time_to_seconds(6, 0, 0), time_to_seconds(6, 35, 0),
      time_to_seconds(21, 30, 0), time_to_seconds(23, 59, 59) }

\* a shift whose check-in and check-out windows both run from 23:30 to 00:30
ShiftWrapping ==
    [ ShiftC EXCEPT !.check_in_start = time_to_seconds(23, 30, 0),
                    !.check_in_end = time_to_seconds(0, 30, 0),
                    !.check_out_start = time_to_seconds(23, 30, 0),
                    !.check_out_end = time_to_seconds(0, 30, 0) ]

\* one row of a group: only the columns the event finders read
BurstRow(start, end) == [ burst_start |-> start, burst_end |-> end ]

\* bursts at, just inside and just outside the bounds of the windows of ShiftA and
\* ShiftWrapping
CallBursts ==
    { BurstRow(At(0, 5, 29, 59), At(0, 5, 29, 59)), BurstRow(At(0, 5, 30, 0), At(0, 5, 30, 0)),
      BurstRow(At(0, 6, 34, 0), At(0, 6, 36, 0)),   BurstRow(At(0, 6, 35, 1), At(0, 6, 35, 1)),
      BurstRow(At(0, 13, 29, 0), At(0, 13, 30, 0)), BurstRow(At(0, 14, 34, 0), At(0, 14, 36, 0)),
      BurstRow(At(0, 14, 35, 0), At(0, 14, 35, 0)), BurstRow(At(0, 23, 29, 0), At(0, 23, 30, 0)),
      BurstRow(At(0, 23, 59, 59), At(0, 23, 59, 59)), BurstRow(At(1, 0, 30, 0), At(1, 0, 30, 0)),
      BurstRow(At(1, 0, 30, 1), At(1, 0, 30, 1)) }

\* the groups: up to MaxGroupRows of these bursts, in chronological order
CallGroups ==
    { [ k \in 1..Cardinality(S) |->
          CHOOSE r \in S : Cardinality({ x \in S : x.burst_start <= r.burst_start }) = k ] :
      S \in SubsetsUpTo(CallBursts, MaxGroupRows) \ { {} } }

\* one person on a morning shift: swipes around the check-in and check-out windows
CallUniverse ==
    { Rec("Silver_Bui", t, "Success") :
        t \in { At(0, 6, 0, 0), At(0, 6, 3, 0), At(0, 10, 20, 0), At(0, 14, 0, 0),
                At(0, 14, 34, 0), At(0, 14, 36, 0), At(0, 14, 40, 0) } }

InitCalls ==
    \/ InitWith({ DefaultConfig }, CallUniverse, Cardinality(CallUniverse))
    \/ /\ config = DefaultConfig
       /\ input = << >>
       /\ swipes = << >>
       /\ bursts = << >>
       /\ shifts = << >>
       /\ records = << >>
       /\ pc = "direct"
       /\ user_pos = 0
       /\ i = 0
       /\ instance_id = 0
       /\ opened = << >>
       /\ skipped = {}
       /\ call = NoCall
       /\ ret = NoneVal

\* one direct call per behaviour
Direct ==
    /\ pc = "direct"
    /\ call = NoCall
    /\ UNCHANGED << config, input, swipes, bursts, shifts, records, pc, user_pos, i,
                    instance_id, opened, skipped >>

\* processor._time_in_range(series, start, end), one element
CallTimeInRange ==
    /\ Direct
    /\ \E t \in CallTimes, start \in CallTimes, end \in CallTimes :
          /\ call' = [ fn |-> "_time_in_range", t |-> t, start |-> start, end |-> end ]
          /\ ret' = _time_in_range(t, start, end)

\* shift_cfg.is_in_check_in_range(t)
CallIsInCheckInRange ==
    /\ Direct
    /\ \E t \in CallTimes, start \in CallTimes, end \in CallTimes :
          /\ call' = [ fn |-> "is_in_check_in_range", t |-> t, start |-> start, end |-> end ]
          /\ ret' = is_in_check_in_range(
                        [ ShiftA EXCEPT !.check_in_start = start, !.check_in_end = end ], t)

\* shift_cfg.determine_check_in_status(check_in_time)
CallDetermineCheckInStatus ==
    /\ Direct
    /\ \E t \in CallTimes \cup { NoneVal }, cutoff \in CallTimes, late \in CallTimes :
          /\ call' = [ fn |-> "determine_check_in_status", t |-> t,
                       cutoff |-> cutoff, late |-> late ]
          /\ ret' = determine_check_in_status(
                        [ ShiftA EXCEPT !.check_in_on_time_cutoff = cutoff,
                                        !.check_in_late_threshold = late ], t)

\* shift_cfg.determine_break_in_status(break_in_time)
CallDetermineBreakInStatus ==
    /\ Direct
    /\ \E t \in CallTimes \cup { NoneVal }, cutoff \in CallTimes, late \in CallTimes :
          /\ call' = [ fn |-> "determine_break_in_status", t |-> t,
                       cutoff |-> cutoff, late |-> late ]
          /\ ret' = determine_break_in_status(
                        [ ShiftA EXCEPT !.break_in_on_time_cutoff = cutoff,
                                        !.break_in_late_threshold = late ], t)

\* processor._find_check_in(group, shift_cfg)
CallFindCheckIn ==
    /\ Direct
    /\ \E group \in CallGroups, shift_cfg \in { ShiftA, ShiftWrapping } :
          /\ call' = [ fn |-> "_find_check_in", group |-> group, shift_cfg |-> shift_cfg ]
          /\ ret' = _find_check_in(group, shift_cfg)

\* processor._find_check_out(group, shift_cfg)
CallFindCheckOut ==
    /\ Direct
    /\ \E group \in CallGroups, shift_cfg \in { ShiftA, ShiftWrapping } :
          /\ call' = [ fn |-> "_find_check_out", group |-> group, shift_cfg |-> shift_cfg ]
          /\ ret' = _find_check_out(group, shift_cfg)

NextCalls ==
    \/ Next
    \/ CallTimeInRange
    \/ CallIsInCheckInRange
    \/ CallDetermineCheckInStatus
    \/ CallDetermineBreakInStatus
    \/ CallFindCheckIn
    \/ CallFindCheckOut

\* one person under the overlapping and the night-B configuration
ConfigUniverse ==
    { Rec("Capone", t, "Success") :
        t \in { At(0, 5, 40, 0), At(0, 5, 52, 0), At(0, 6, 20, 0), At(0, 10, 0, 0),
                At(0, 14, 0, 0), At(0, 22, 0, 0), At(1, 6, 0, 0) } }

\* one person on a morning shift: swipes around the checkpoint and the early cutoff
EarlyCutoffUniverse ==
    { Rec("Silver_Bui", t, "Success") :
        t \in { At(0, 6, 0, 0), At(0, 9, 50, 0), At(0, 9, 55, 0), At(0, 10, 5, 0),
                At(0, 10, 7, 0), At(0, 10, 9, 0), At(0, 10, 15, 0), At(0, 10, 25, 0),
                At(0, 10, 33, 0), At(0, 14, 0, 0) } }

InitConfigs ==
    \/ InitWith({ OverlapConfig, NightBConfig }, ConfigUniverse, Cardinality(ConfigUniverse))
    \/ InitWith({ EarlyCutoffConfig }, EarlyCutoffUniverse, Cardinality(EarlyCutoffUniverse))

Spec == Init /\ [][Next]_vars
SpecConfigs == InitConfigs /\ [][Next]_vars
SpecCalls == InitCalls /\ [][NextCalls]_vars
SpecBursts == InitBursts /\ [][Next]_vars
SpecShift == InitShift /\ [][Next]_vars
SpecBreaks == InitBreaks /\ [][Next]_vars

----------------------------------------------------------------------------
(* Properties *)

\* program points at which the named frame holds its final value
BurstsDone == pc \in { "bursts", "scan", "segmented", "extracted", "done", "KeyError" }
Segmented == pc \in { "segmented", "extracted", "done", "KeyError" }
Extracted == pc \in { "extracted", "done", "KeyError" }

\* timestamps of one person's swipes, in frame order
SwipeTimes(n) ==
    LET rows == Pick(swipes, { k \in 1..Len(swipes) : swipes[k].Name = n })
    IN  [ k \in 1..Len(rows) |-> rows[k].timestamp ]

\* the maximal runs <<first, last>> of a sorted sequence T in which adjacent gaps are <= thr
MaximalRuns(T, thr) ==
    LET IsRun(a, b) ==
            /\ (a = 1 \/ T[a] - T[a - 1] > thr)
            /\ (b = Len(T) \/ T[b + 1] - T[b] > thr)
            /\ \A k \in (a + 1)..b : T[k] - T[k - 1] <= thr
        ends == { ab \in (1..Len(T)) \X (1..Len(T)) : ab[1] <= ab[2] /\ IsRun(ab[1], ab[2]) }
    IN  { << T[ab[1]], T[ab[2]] >> : ab \in ends }

\* rows of the burst frame of one person, in frame order
BurstsOf(n) == Pick(bursts, { k \in 1..Len(bursts) : bursts[k].Name = n })

\* C1: the bursts of each person are exactly the maximal runs of that person's sorted
\* swipes with adjacent gaps <= burst_threshold (a gap equal to the threshold merges),
\* one burst per run spanning (min, max) of the run, in chronological order, and no
\* burst holds swipes of two persons
C1_BurstsAreMaximalRuns ==
    BurstsDone =>
        LET thr == config.burst_threshold_minutes * SecondsPerMinute
            names == { swipes[k].Name : k \in 1..Len(swipes) }
        IN  /\ { bursts[k].Name : k \in 1..Len(bursts) } = names
            /\ \A n \in names :
                  LET T == SwipeTimes(n)
                      B == BurstsOf(n)
                  IN  /\ { << B[k].burst_start, B[k].burst_end >> : k \in 1..Len(B) }
                            = MaximalRuns(T, thr)
                      /\ Len(B) = Cardinality(MaximalRuns(T, thr))
                      /\ \A k \in 1..(Len(B) - 1) : B[k].burst_end < B[k + 1].burst_start
                      /\ \A k \in 1..Len(B) :
                            /\ B[k].burst_start = SetMin({ T[m] : m \in { m \in 1..Len(T) :
                                   B[k].burst_start <= T[m] /\ T[m] <= B[k].burst_end } })
                            /\ B[k].burst_end = SetMax({ T[m] : m \in { m \in 1..Len(T) :
                                   B[k].burst_start <= T[m] /\ T[m] <= B[k].burst_end } })

\* C1 witness: two persons; a gap of exactly the threshold merged into one burst and a gap
\* one second longer split into two bursts
C1_Witness ==
    /\ pc = "bursts"
    /\ Cardinality({ bursts[k].Name : k \in 1..Len(bursts) }) = 2
    /\ \E k \in 1..Len(bursts) :
          bursts[k].burst_end - bursts[k].burst_start
              = config.burst_threshold_minutes * SecondsPerMinute
    /\ \E k \in 1..(Len(bursts) - 1) :
          /\ bursts[k].Name = bursts[k + 1].Name
          /\ bursts[k + 1].burst_start - bursts[k].burst_end
                = config.burst_threshold_minutes * SecondsPerMinute + 1

\* the swipes of one person at the given timestamps, as the loader returns them
SwipesOf(n, times) == OrderRecords({ Rec(n, t, "Success") : t \in times })

\* the history entry of the instance with the given id
OpenedWithId(id) == opened[CHOOSE n \in 1..Len(opened) : opened[n].id = id]

\* the windows of the overlapping-window scenarios: C check-in = B check-out = 21:30-22:35,
\* C check-out window ending 06:35
ScenarioWindows ==
    /\ config.shifts["C"].check_in_start = time_to_seconds(21, 30, 0)
    /\ config.shifts["C"].check_in_end = time_to_seconds(22, 35, 0)
    /\ config.shifts["C"].check_out_end = time_to_seconds(6, 35, 0)
    /\ config.shifts["B"].check_out_start = time_to_seconds(21, 30, 0)
    /\ config.shifts["B"].check_out_end = time_to_seconds(22, 35, 0)

NightScenario ==
    SwipesOf("Capone", { At(0, 21, 55, 28), At(1, 2, 0, 35), At(1, 2, 44, 51), At(1, 6, 3, 14) })

\* C2: the night-shift swipes 21:55:28 (day 0), 02:00:35, 02:44:51, 06:03:14 (day 1) of
\* one person give exactly one instance of shift C holding all four bursts, dated day 0,
\* with Check-in 21:55:28 and Check-out 06:03:14
C2_NightShiftNotSplit ==
    (input = NightScenario /\ ScenarioWindows) =>
        /\ Segmented =>
              /\ Len(opened) = 1
              /\ Len(shifts) = 4
              /\ \A k \in 1..Len(shifts) :
                    /\ shifts[k].shift_code = "C"
                    /\ shifts[k].shift_date = 0
                    /\ shifts[k].shift_instance_id = opened[1].id
        /\ Extracted =>
              /\ Len(records) = 1
              /\ records[1].Date = 0
              /\ records[1].Shift = "Night"
              /\ records[1].CheckIn = << 21, 55, 28 >>
              /\ records[1].CheckOutRecord = << 6, 3, 14 >>

\* C2 witness: the scenario has been processed to the end
C2_Witness == input = NightScenario /\ ScenarioWindows /\ pc = "done"

\* C3: the shift_date of every row of an instance, and the Date of its record, is the
\* calendar date of the start of the burst that opened the instance
C3_DateIsCheckInDate ==
    /\ (pc = "scan" \/ Segmented) =>
          \A k \in 1..Len(shifts) :
              shifts[k].shift_instance_id # NoneVal =>
                  /\ \E n \in 1..Len(opened) : opened[n].id = shifts[k].shift_instance_id
                  /\ shifts[k].shift_date
                        = DateOf(OpenedWithId(shifts[k].shift_instance_id).start)
    /\ Extracted =>
          /\ Len(records) = Len(InstanceIds(shifts))
          /\ \A n \in 1..Len(records) :
                records[n].Date = DateOf(OpenedWithId(InstanceIds(shifts)[n]).start)

\* C3 witness: a record whose instance holds a burst of a later calendar date
C3_Witness ==
    /\ pc = "done"
    /\ \E k \in 1..Len(shifts) :
          /\ DateOf(shifts[k].burst_start) > shifts[k].shift_date
          /\ \E n \in 1..Len(records) :
                /\ InstanceIds(shifts)[n] = shifts[k].shift_instance_id
                /\ records[n].Date = shifts[k].shift_date

\* the instances (positions in the history) whose scan range holds row k
Covering(k) ==
    { n \in 1..Len(opened) :
        \E j \in opened[n].from..(opened[n].stop - 1) :
            UserIndex(shifts, opened[n].Name)[j] = k }

\* the scan has visited every person
ScanFinished ==
    \/ Segmented
    \/ pc = "scan" /\ user_pos > Len(UniqueNames(shifts))

\* state part of C4
C4_Partition ==
    /\ pc = "scan" =>
          \A k \in 1..Len(shifts) :
              /\ Cardinality(Covering(k)) <= 1
              /\ (shifts[k].shift_instance_id # NoneVal) = (Covering(k) # {})
              /\ \A n \in Covering(k) :
                    /\ shifts[k].shift_instance_id = opened[n].id
                    /\ shifts[k].shift_code = opened[n].code
              /\ k \in skipped =>
                    /\ Covering(k) = {}
                    /\ shifts[k].shift_code = NoneCode
                    /\ \A c \in 1..Len(ShiftCodes) :
                          ~ is_in_check_in_range(config.shifts[ShiftCodes[c]],
                                                 TimeOf(shifts[k].burst_start))
              /\ ScanFinished => (k \in skipped) = (Covering(k) = {})
    /\ Segmented =>
          /\ Len(shifts) + Cardinality(skipped) = Len(bursts)
          /\ \A k \in 1..Len(shifts) :
                /\ shifts[k].shift_instance_id # NoneVal
                /\ \E n \in 1..Len(opened) : opened[n].id = shifts[k].shift_instance_id
          /\ { << shifts[k].Name, shifts[k].burst_start >> : k \in 1..Len(shifts) }
                = { << bursts[k].Name, bursts[k].burst_start >> :
                       k \in (1..Len(bursts)) \ skipped }

\* action part of C4
C4_Step ==
    (pc = "scan" /\ pc' = "scan") =>
        /\ \A k \in 1..Len(shifts) :
              shifts[k].shift_instance_id # NoneVal => shifts'[k] = shifts[k]
        /\ skipped' # skipped =>
              /\ i' = i + 1
              /\ shifts' = shifts
              /\ skipped' = skipped \cup { UserIndex(shifts, Username)[i] }

\* C4: every burst ends up in exactly one instance or is skipped as an orphan; an
\* assigned burst is never assigned again; a burst is an orphan exactly when it is in
\* no instance and its start time lies in no shift's check-in window, and the scan then
\* moves to the next burst
C4_AssignedOnceOrOrphan == [] C4_Partition /\ [][C4_Step]_vars

\* C4 witness: a finished segmentation with an orphan and two instances of one person
C4_Witness ==
    /\ Segmented
    /\ skipped # {}
    /\ \E m, n \in 1..Len(opened) : m # n /\ opened[m].Name = opened[n].Name
    /\ \E n \in 1..Len(opened) : opened[n].stop > opened[n].from + 1

\* the start time of the burst at position j of the instance's person lies in the
\* check-in window of a shift other than the instance's
InOtherCheckIn(o, j) ==
    \E c \in 1..Len(ShiftCodes) :
        /\ ShiftCodes[c] # o.code
        /\ is_in_check_in_range(config.shifts[ShiftCodes[c]],
                                TimeOf(shifts[UserIndex(shifts, o.Name)[j]].burst_start))

\* ... lies in the check-out window of the instance's own shift
InOwnCheckOut(o, j) ==
    _time_in_range(TimeOf(shifts[UserIndex(shifts, o.Name)[j]].burst_start),
                   config.shifts[o.code].check_out_start,
                   config.shifts[o.code].check_out_end)

\* ... and the burst starts no later than the instance's activity window ends
InWindow(o, j) ==
    shifts[UserIndex(shifts, o.Name)[j]].burst_start <= WindowEnd(config, o.code, o.date)

AfternoonScenario == SwipesOf("Capone", { At(0, 14, 0, 0), At(0, 22, 0, 0) })

\* C5: while an instance is absorbing, a later burst inside the activity window whose
\* start lies in the shift's own check-out range is absorbed even if it also lies in
\* another shift's check-in range; a later burst in another shift's check-in range and
\* outside the own check-out range stops the absorption. Swipes at 14:00 and 22:00 give
\* one shift-B instance with Check-out 22:00:00
C5_CheckOutBeforeNextCheckIn ==
    /\ pc = "scan" =>
          \A n \in 1..Len(opened) :
              \A j \in (opened[n].from + 1)..opened[n].stop :
                  j <= Len(UserIndex(shifts, opened[n].Name)) =>
                      /\ (InWindow(opened[n], j) /\ InOwnCheckOut(opened[n], j))
                            => j < opened[n].stop
                      /\ (InOtherCheckIn(opened[n], j) /\ ~ InOwnCheckOut(opened[n], j))
                            => j = opened[n].stop
    /\ (input = AfternoonScenario /\ ScenarioWindows /\ Extracted) =>
          /\ Len(opened) = 1
          /\ opened[1].code = "B"
          /\ Len(records) = 1
          /\ records[1].Shift = "Afternoon"
          /\ records[1].CheckOutRecord = << 22, 0, 0 >>

\* C5 witness: one instance absorbed a burst lying in its check-out range and in another
\* shift's check-in range, and one instance stopped at a burst inside its window that
\* lies in another shift's check-in range only
C5_Witness ==
    /\ pc = "scan"
    /\ ScanFinished
    /\ \E n \in 1..Len(opened) : \E j \in (opened[n].from + 1)..(opened[n].stop - 1) :
          InOwnCheckOut(opened[n], j) /\ InOtherCheckIn(opened[n], j)
    /\ \E n \in 1..Len(opened) :
          /\ opened[n].stop <= Len(UserIndex(shifts, opened[n].Name))
          /\ InWindow(opened[n], opened[n].stop)
          /\ InOtherCheckIn(opened[n], opened[n].stop)
          /\ ~ InOwnCheckOut(opened[n], opened[n].stop)

LoneEveningSwipe == SwipesOf("Capone", { At(0, 22, 0, 0) })

\* C6 as stated: a single swipe at 22:00 with nothing earlier gives one instance of
\* shift B
C6_LoneSwipeIsShiftB ==
    (input = LoneEveningSwipe /\ ScenarioWindows /\ Extracted) =>
        /\ Len(opened) = 1
        /\ opened[1].code = "B"

\* C6: a single swipe at 22:00 with nothing earlier opens one instance of shift C (the
\* swipe lies in C's check-in window and in no other check-in window), never an
\* instance of shift B, and the one record is a Night record with Check-in 22:00:00
C6_LoneSwipeOpensShiftC ==
    (input = LoneEveningSwipe /\ ScenarioWindows) =>
        /\ \A n \in 1..Len(opened) : opened[n].code = "C"
        /\ Segmented => Len(opened) = 1 /\ Len(shifts) = 1 /\ shifts[1].shift_code = "C"
        /\ Extracted =>
              /\ Len(records) = 1
              /\ records[1].Shift = "Night"
              /\ records[1].CheckIn = << 22, 0, 0 >>

\* C6 witness: the lone swipe has been processed to the end
C6_Witness == input = LoneEveningSwipe /\ ScenarioWindows /\ pc = "done"

\* the rows, the shift configuration and the break candidate pool of record n
RecordGroup(n) == Group(shifts, InstanceIds(shifts)[n])
RecordShift(n) == config.shifts[RecordGroup(n)[1].shift_code]
Pool(n) == BreakSwipes(RecordGroup(n), RecordShift(n))
PoolGaps(n) == QualifyingGaps(Pool(n), RecordShift(n).minimum_break_gap_minutes)

\* the times of day of the bursts of a pool of single-swipe bursts
PoolTimes(n) == [ k \in 1..Len(Pool(n)) |-> Strftime(Pool(n)[k].burst_start) ]
SingleSwipes(n) == \A k \in 1..Len(Pool(n)) : Pool(n)[k].burst_start = Pool(n)[k].burst_end

IndependentScenario ==
    SwipesOf("Silver_Bui", { At(0, 6, 0, 0), At(0, 9, 55, 0), At(0, 10, 5, 0),
                             At(0, 10, 15, 0), At(0, 10, 25, 0), At(0, 14, 0, 0) })

C8_GapBeforeMidpoint ==
    Extracted =>
        \A n \in 1..Len(records) :
            LET bs == Pool(n)  Q == PoolGaps(n)  S == RecordShift(n)
            IN  /\ Q # {} =>
                      /\ records[n].BreakTimeOut # Blank
                      /\ records[n].BreakTimeIn # Blank
                      /\ records[n].BreakTimeOut \in { Strftime(bs[k].burst_end) : k \in Q }
                      /\ records[n].BreakTimeIn \in { Strftime(bs[k + 1].burst_start) : k \in Q }
                /\ ( /\ PoolTimes(n) = << << 10, 20, 0 >>, << 10, 29, 0 >> >>
                     /\ SingleSwipes(n)
                     /\ S.midpoint = time_to_seconds(10, 15, 0)
                     /\ S.minimum_break_gap_minutes = 5 ) =>
                        /\ records[n].BreakTimeOut = << 10, 20, 0 >>
                        /\ records[n].BreakTimeIn = << 10, 29, 0 >>

\* C8 witness: a record whose pool is 10:20 and 10:29, both after the midpoint
C8_Witness ==
    /\ pc = "done"
    /\ \E n \in 1..Len(records) :
          /\ PoolTimes(n) = << << 10, 20, 0 >>, << 10, 29, 0 >> >>
          /\ PoolGaps(n) = { 1 }
          /\ \A k \in 1..Len(Pool(n)) : TimeOf(Pool(n)[k].burst_start) > RecordShift(n).midpoint
          /\ records[n].BreakTimeOut = << 10, 20, 0 >>

\* positions of the pool of record n that end at or before, and that start after, the midpoint
Before(n) == { k \in 1..Len(Pool(n)) : TimeOf(Pool(n)[k].burst_end) <= RecordShift(n).midpoint }
After(n) == { k \in 1..Len(Pool(n)) : TimeOf(Pool(n)[k].burst_start) > RecordShift(n).midpoint }

\* C9: without a qualifying gap, a pool with a burst ending at or before the midpoint
\* and a burst starting after it gives Break Time Out = the latest burst_end of the
\* former and Break Time In = the earliest burst_start of the latter
C9_MidpointBothSides ==
    Extracted =>
        \A n \in 1..Len(records) :
            (PoolGaps(n) = {} /\ Before(n) # {} /\ After(n) # {}) =>
                /\ records[n].BreakTimeOut
                      = Strftime(SetMax({ Pool(n)[k].burst_end : k \in Before(n) }))
                /\ records[n].BreakTimeIn
                      = Strftime(SetMin({ Pool(n)[k].burst_start : k \in After(n) }))

\* C9 witness: no qualifying gap, two bursts before the midpoint and two after it
C9_Witness ==
    /\ pc = "done"
    /\ \E n \in 1..Len(records) :
          /\ PoolGaps(n) = {}
          /\ Cardinality(Before(n)) >= 2
          /\ Cardinality(After(n)) >= 2

\* the pairs (a, b) of positions adjacent within the set K of pool positions, at least
\* minimum_break_gap apart
InternalGaps(n, K) ==
    { ab \in K \X K :
        /\ ab[1] < ab[2]
        /\ \A k \in K : ~ (ab[1] < k /\ k < ab[2])
        /\ Pool(n)[ab[2]].burst_start - Pool(n)[ab[1]].burst_end
              >= RecordShift(n).minimum_break_gap_minutes * SecondsPerMinute }

\* the first of a non-empty set of internal gaps
FirstGap(G) == CHOOSE ab \in G : \A cd \in G : ab[1] <= cd[1]

\* C10: without a qualifying gap in the pool and with bursts on one side of the midpoint
\* only: bursts before only give the ends of the first qualifying gap inside that side if
\* there is one, else Break Time Out = latest burst_end and a blank Break Time In; bursts
\* after only, with no gap inside, give a blank Break Time Out and Break Time In =
\* earliest burst_start. A pool of 10:08 with midpoint 10:15 gives 10:08 and blank, a
\* pool of 10:20 gives blank and 10:20
C10_MidpointOneSide ==
    Extracted =>
        \A n \in 1..Len(records) :
            LET bs == Pool(n)  B == Before(n)  A == After(n)
            IN  /\ (PoolGaps(n) = {} /\ B # {} /\ A = {}) =>
                      IF InternalGaps(n, B) # {}
                      THEN /\ records[n].BreakTimeOut
                                 = Strftime(bs[FirstGap(InternalGaps(n, B))[1]].burst_end)
                           /\ records[n].BreakTimeIn
                                 = Strftime(bs[FirstGap(InternalGaps(n, B))[2]].burst_start)
                      ELSE /\ records[n].BreakTimeOut
                                 = Strftime(SetMax({ bs[k].burst_end : k \in B }))
                           /\ records[n].BreakTimeIn = Blank
                /\ (PoolGaps(n) = {} /\ B = {} /\ A # {} /\ InternalGaps(n, A) = {}) =>
                      /\ records[n].BreakTimeOut = Blank
                      /\ records[n].BreakTimeIn
                            = Strftime(SetMin({ bs[k].burst_start : k \in A }))
                /\ (SingleSwipes(n) /\ RecordShift(n).midpoint = time_to_seconds(10, 15, 0)) =>
                      /\ PoolTimes(n) = << << 10, 8, 0 >> >> =>
                            /\ records[n].BreakTimeOut = << 10, 8, 0 >>
                            /\ records[n].BreakTimeIn = Blank
                      /\ PoolTimes(n) = << << 10, 20, 0 >> >> =>
                            /\ records[n].BreakTimeOut = Blank
                            /\ records[n].BreakTimeIn = << 10, 20, 0 >>

\* C10 witness: bursts before the midpoint only, two of them a qualifying gap apart
\* although no two consecutive bursts of the pool are
C10_Witness ==
    /\ pc = "done"
    /\ \E n \in 1..Len(records) :
          /\ PoolGaps(n) = {}
          /\ Before(n) # {}
          /\ After(n) = {}
          /\ InternalGaps(n, Before(n)) # {}
          /\ records[n].BreakTimeIn # Blank

\* C11: Break Time Out and Break Time In are both blank exactly when the candidate pool
\* of the instance is empty; every non-empty pool gives at least one non-blank endpoint,
\* also a pool of one burst that starts at or before the midpoint and ends after it
C11_BlankIffEmptyPool ==
    Extracted =>
        \A n \in 1..Len(records) :
            (records[n].BreakTimeOut = Blank /\ records[n].BreakTimeIn = Blank)
                <=> (Len(Pool(n)) = 0)

\* membership of a time of day in a window, bounds included, wrapping when start > end
Member(t, start, end) ==
    IF start <= end THEN start <= t /\ t <= end ELSE t >= start \/ t <= end

\* the rows of a group whose start, and whose end, lies in the given window
StartsIn(group, start, end) ==
    { k \in 1..Len(group) : Member(TimeOf(group[k].burst_start), start, end) }
EndsIn(group, start, end) ==
    { k \in 1..Len(group) : Member(TimeOf(group[k].burst_end), start, end) }

\* the check-in the claim prescribes for a group
EarliestCheckIn(group, S) ==
    LET Q == StartsIn(group, S.check_in_start, S.check_in_end)
    IN  IF Q = {} THEN Blank ELSE Strftime(SetMin({ group[k].burst_start : k \in Q }))

\* C12: the check-in of a group is the time of day of the earliest burst_start among the
\* rows whose start lies in the check-in window (bounds included), and blank exactly
\* when no row starts in the window; an earlier row outside the window is never taken
C12_CheckInIsEarliestInWindow ==
    /\ call.fn = "_find_check_in" =>
          /\ ret.str = EarliestCheckIn(call.group, call.shift_cfg)
          /\ (ret.str = Blank) <=> (StartsIn(call.group, call.shift_cfg.check_in_start,
                                             call.shift_cfg.check_in_end) = {})
    /\ Extracted =>
          \A n \in 1..Len(records) :
              records[n].CheckIn = EarliestCheckIn(RecordGroup(n), RecordShift(n))

\* C12 witness: a call on a group whose first row starts before the window and which
\* has two rows starting inside it
C12_Witness ==
    /\ call.fn = "_find_check_in"
    /\ Len(call.group) = 3
    /\ StartsIn(call.group, call.shift_cfg.check_in_start, call.shift_cfg.check_in_end)
          = { 2, 3 }
    /\ ret.str = Strftime(call.group[2].burst_start)

\* the check-out the claim prescribes for a group
LatestCheckOut(group, S) ==
    LET Q == EndsIn(group, S.check_out_start, S.check_out_end)
    IN  IF Q = {} THEN Blank ELSE Strftime(SetMax({ group[k].burst_end : k \in Q }))

\* C13: the check-out of a group is the time of day of the latest burst_end among the
\* rows whose end lies in the check-out window (bounds included, wrapping), and blank
\* exactly when no row ends in the window; a row that starts inside the window and ends
\* after it does not supply the check-out
C13_CheckOutIsLatestEndInWindow ==
    /\ call.fn = "_find_check_out" =>
          /\ ret = LatestCheckOut(call.group, call.shift_cfg)
          /\ (ret = Blank) <=> (EndsIn(call.group, call.shift_cfg.check_out_start,
                                       call.shift_cfg.check_out_end) = {})
    /\ Extracted =>
          \A n \in 1..Len(records) :
              records[n].CheckOutRecord = LatestCheckOut(RecordGroup(n), RecordShift(n))

\* C13 witness: an instance absorbed a burst that starts in the check-out window and
\* ends after it, and its check-out comes from an earlier burst
C13_Witness ==
    /\ pc = "done"
    /\ \E n \in 1..Len(records) : \E k \in 1..Len(RecordGroup(n)) :
          LET g == RecordGroup(n)  S == RecordShift(n)
          IN  /\ k \in StartsIn(g, S.check_out_start, S.check_out_end)
              /\ k \notin EndsIn(g, S.check_out_start, S.check_out_end)
              /\ records[n].CheckOutRecord # Blank
              /\ records[n].CheckOutRecord # Strftime(g[k].burst_end)

\* the status rule of the claim, one case per line
StatusRule(t, cutoff, late, status) ==
    /\ status \in { "On Time", "Late", "" }
    /\ t = NoneVal => status = ""
    /\ (t # NoneVal /\ t <= cutoff) => status = "On Time"
    /\ (t # NoneVal /\ t > cutoff /\ t >= late) => status = "Late"
    /\ (t # NoneVal /\ t > cutoff /\ t < late) => status = ""

\* the time of day of a formatted time, None for the blank string
ParseTime(str) == IF str = Blank THEN NoneVal ELSE time_to_seconds(str[1], str[2], str[3])

\* C14: the check-in status and the break-in status are total functions of the time:
\* "On Time" up to the on-time cutoff, else "Late" from the late threshold on, else the
\* empty status; an absent time gives the empty status; the on-time test comes first
C14_StatusIsTotal ==
    /\ call.fn \in { "determine_check_in_status", "determine_break_in_status" } =>
          StatusRule(call.t, call.cutoff, call.late, ret)
    /\ Extracted =>
          \A n \in 1..Len(records) :
              /\ StatusRule(ParseTime(records[n].CheckIn),
                            RecordShift(n).check_in_on_time_cutoff,
                            RecordShift(n).check_in_late_threshold,
                            records[n].CheckInStatus)
              /\ StatusRule(ParseTime(records[n].BreakTimeIn),
                            RecordShift(n).break_in_on_time_cutoff,
                            RecordShift(n).break_in_late_threshold,
                            records[n].BreakTimeInStatus)

\* C14 witness: a time that is both at or before the cutoff and at or after the threshold
C14_Witness ==
    /\ call.fn = "determine_check_in_status"
    /\ call.t # NoneVal
    /\ call.t <= call.cutoff
    /\ call.t >= call.late
    /\ ret = "On Time"

\* C15: _time_in_range and is_in_check_in_range both decide membership with the bounds
\* included, wrapping around midnight when start > end, and so agree on every time and
\* every window
C15_WindowMembership ==
    call.fn \in { "_time_in_range", "is_in_check_in_range" } =>
        ret = Member(call.t, call.start, call.end)

\* C15 witness: a time after midnight inside a wrapping window
C15_Witness ==
    /\ call.fn = "_time_in_range"
    /\ call.start > call.end
    /\ call.t <= call.end
    /\ ret = TRUE

\* the stages of process() after the early return
AfterFilters == pc \in { "bursts", "scan", "segmented", "extracted", "done", "KeyError" }

\* a row of the filtered frame without the two mapped columns
Raw(r) == [ Name |-> r.Name, timestamp |-> r.timestamp, Status |-> r.Status ]

\* the rows of the input that pass both filters
Passing ==
    { k \in 1..Len(input) :
        /\ input[k].Status = config.status_filter
        /\ input[k].Name \in DOMAIN config.valid_users }

\* C17: after the two filters the frame holds exactly the input rows with the filtered
\* status and a valid user, each with the mapped output name and id, in the order of the
\* input, which is by person and then by ascending timestamp
C17_FilterKeepsExactlyValid ==
    /\ pc = "status_filtered" =>
          \A k \in 1..Len(swipes) : swipes[k].Status = config.status_filter
    /\ (pc \in { "users_filtered", "returned" } \/ AfterFilters) =>
          /\ Len(swipes) = Cardinality(Passing)
          /\ { Raw(swipes[k]) : k \in 1..Len(swipes) } = { input[k] : k \in Passing }
          /\ \A k \in 1..Len(swipes) :
                /\ swipes[k].output_name = config.valid_users[swipes[k].Name].output_name
                /\ swipes[k].output_id = config.valid_users[swipes[k].Name].output_id
          /\ \A a, b \in 1..Len(swipes) :
                a < b =>
                    /\ \E x, y \in Passing :
                          x < y /\ input[x] = Raw(swipes[a]) /\ input[y] = Raw(swipes[b])
                    /\ \/ NameRank(swipes[a].Name) < NameRank(swipes[b].Name)
                       \/ /\ swipes[a].Name = swipes[b].Name
                          /\ swipes[a].timestamp <= swipes[b].timestamp

\* C17 witness: rows of two valid users kept, a failed swipe and an unknown user dropped
C17_Witness ==
    /\ pc = "users_filtered"
    /\ Cardinality({ swipes[k].Name : k \in 1..Len(swipes) }) = 2
    /\ \E k \in 1..Len(input) : input[k].Status # config.status_filter
    /\ \E k \in 1..Len(input) : input[k].Name \notin DOMAIN config.valid_users

\* C18: the extractor returns exactly one record per instance the segmenter opened, and
\* the records of one person are in the chronological order of the check-in bursts
C18_OneRecordPerInstance ==
    Extracted =>
        LET ids == InstanceIds(shifts)
        IN  /\ Len(records) = Len(opened)
            /\ Len(ids) = Len(opened)
            /\ { ids[n] : n \in 1..Len(ids) } = { opened[k].id : k \in 1..Len(opened) }
            /\ \A n \in 1..Len(records) :
                  /\ records[n].Name = config.valid_users[OpenedWithId(ids[n]).Name].output_name
                  /\ records[n].CheckIn = Strftime(OpenedWithId(ids[n]).start)
            /\ \A m, n \in 1..Len(records) :
                  (m < n /\ records[m].Name = records[n].Name) =>
                      OpenedWithId(ids[m]).start < OpenedWithId(ids[n]).start

\* C18 witness: two persons, one of them with two instances
C18_Witness ==
    /\ pc = "done"
    /\ Cardinality({ records[n].Name : n \in 1..Len(records) }) = 2
    /\ \E m, n \in 1..Len(records) : m # n /\ records[m].Name = records[n].Name

\* the segmentation of a frame that holds the bursts of one person only
RECURSIVE SoloScan(_, _, _, _)
SoloScan(cfg, d, at, id) ==
    IF at > Len(d) THEN DropOrphans(d)
    ELSE LET idx == [ k \in 1..Len(d) |-> k ]
             swipe_time == d[at].burst_start
             shift_code == MatchCheckIn(cfg, TimeOf(swipe_time))
         IN  IF shift_code = NoneCode
             THEN SoloScan(cfg, d, at + 1, id)
             ELSE LET stop == AbsorbStop(cfg, d, idx, shift_code, DateOf(swipe_time), at)
                  IN  SoloScan(cfg,
                               AssignInstance(d, idx, at, stop, shift_code,
                                              DateOf(swipe_time), id),
                               stop, id + 1)

\* the records of a run whose input holds the swipes of person P only
SoloRecords(P) ==
    LET own == Pick(input, { k \in 1..Len(input) : input[k].Name = P })
        kept == _filter_valid_users(_filter_valid_status(own, config), config)
    IN  IF Len(kept) = 0 THEN << >>
        ELSE _extract_attendance_events(
                 SoloScan(config, InitShiftColumns(_detect_bursts(kept, config)), 1, 0),
                 config)

\* the records of person P in the run on the whole input
PersonRecords(P) ==
    Pick(records, { n \in 1..Len(records) :
                      records[n].Name = config.valid_users[P].output_name })

\* C19: the records of a person are those of a run on that person's swipes alone,
\* whatever the swipes of the other persons are
C19_PersonsAreIndependent ==
    Extracted =>
        \A P \in DOMAIN config.valid_users : PersonRecords(P) = SoloRecords(P)

\* C19 witness: two persons with records, the swipes of one lying between those of the other
C19_Witness ==
    /\ pc = "done"
    /\ Cardinality({ records[n].Name : n \in 1..Len(records) }) = 2
    /\ \E a, b, c \in 1..Len(swipes) :
          /\ swipes[a].Name = swipes[c].Name
          /\ swipes[b].Name # swipes[a].Name
          /\ swipes[a].timestamp < swipes[b].timestamp
          /\ swipes[b].timestamp < swipes[c].timestamp

\* state part of C20
C20_NothingRan ==
    /\ pc = "returned" =>
          /\ Len(swipes) = 0
          /\ bursts = << >>
          /\ shifts = << >>
          /\ records = << >>
          /\ opened = << >>
    /\ AfterFilters => Len(swipes) > 0

\* action part of C20
C20_Step ==
    /\ (pc = "users_filtered" /\ Len(swipes) = 0) => pc' = "returned"
    /\ pc = "returned" => UNCHANGED vars

\* C20: when no row is left after the two filters, process() returns at once: no burst
\* detection, segmentation, extraction or writing runs, no record exists and no error
\* is raised
C20_EmptyReturnsEarly == [] C20_NothingRan /\ [][C20_Step]_vars

\* C20 witness: a non-empty input of which no row passes the filters
C20_Witness == pc = "returned" /\ Len(input) > 0

\* C21: every record has a non-blank Check-in, and it is the time of day of the start of
\* the burst that opened the record's instance, also when the instance is a night shift
\* that absorbed later bursts lying in a check-in window
C21_CheckInIsOpeningBurst ==
    Extracted =>
        \A n \in 1..Len(records) :
            LET o == OpenedWithId(InstanceIds(shifts)[n])
            IN  /\ records[n].CheckIn # Blank
                /\ ParseTime(records[n].CheckIn) = TimeOf(o.start)
                /\ RecordGroup(n)[1].burst_start = o.start

\* a night-shift record opened at 21:55:28 whose instance also holds the 22:00:00 burst
\* and the burst at 06:03:14 of the next day
C21_Witness ==
    /\ pc = "done"
    /\ \E n \in 1..Len(records) :
          /\ records[n].Shift = config.shifts["C"].display_name
          /\ records[n].CheckIn = << 21, 55, 28 >>
          /\ \E k \in 1..Len(RecordGroup(n)) :
                RecordGroup(n)[k].burst_start = At(0, 22, 0, 0)
          /\ \E k \in 1..Len(RecordGroup(n)) :
                /\ RecordGroup(n)[k].burst_start = At(1, 6, 3, 14)
                /\ is_in_check_in_range(config.shifts["A"],
                                        TimeOf(RecordGroup(n)[k].burst_start))


\* the positions, in the order A, B, C, of the shifts whose check-in window holds t
CheckInHits(t) ==
    { c \in 1..Len(ShiftCodes) :
        Member(t, config.shifts[ShiftCodes[c]].check_in_start,
                  config.shifts[ShiftCodes[c]].check_in_end) }

\* C22: the shift code of an opened instance is the first code, in the order A, B, C,
\* whose check-in window holds the start time of the opening burst; when several
\* windows hold it the earliest code wins, whatever the other bursts are
C22_FirstMatchingShiftWins ==
    \A n \in 1..Len(opened) :
        LET hits == CheckInHits(TimeOf(opened[n].start))
        IN  /\ hits # {}
            /\ opened[n].code = ShiftCodes[SetMin(hits)]

\* a burst at 05:52 lies in the check-in windows of A and of C and opens shift A, alone
\* and with other bursts around it
C22_Witness ==
    /\ ScanFinished
    /\ Len(shifts) >= 2
    /\ \E n \in 1..Len(opened) :
          /\ opened[n].start = At(0, 5, 52, 0)
          /\ CheckInHits(TimeOf(opened[n].start)) = { 1, 3 }
          /\ opened[n].code = "A"


\* a shift is configured to cross midnight when its check-out window ends before its
\* check-in window starts
CrossesMidnight(shift_cfg) == shift_cfg.check_out_end < shift_cfg.check_in_start

\* C23: the activity window of an opened instance ends at the shift's check-out end on
\* the day after the shift date when the shift is configured to cross midnight, and on
\* the shift date otherwise, for every shift of every configuration
C23_WindowEndFollowsConfig ==
    \A n \in 1..Len(opened) :
        LET o == opened[n]
            shift_cfg == config.shifts[o.code]
        IN  o.window_end = Combine(IF CrossesMidnight(shift_cfg) THEN o.date + 1 ELSE o.date,
                                   shift_cfg.check_out_end)


\* C24: the burst that matched a check-in window is absorbed into the instance it opens,
\* whatever the window_end test and the competing check-in test say: every opened
\* instance holds at least its check-in burst
C24_CheckInBurstAbsorbed ==
    pc = "scan" =>
        \A n \in 1..Len(opened) :
            /\ opened[n].stop > opened[n].from
            /\ shifts[opened[n].row].shift_instance_id = opened[n].id

\* C27: every iteration of the scan of one person's bursts moves the scan pointer
\* forward: by one on an orphan, past the check-in burst on a match
C27_ScanPointerAdvances ==
    [][(pc = "scan" /\ pc' = "scan" /\ user_pos' = user_pos) => i' > i]_vars


\* the qualifying gaps of record n whose burst_end is as close to the checkpoint, and
\* whose following burst_start is as close to the break-in cutoff, as any
ClosestOutGaps(n) ==
    { k \in PoolGaps(n) : \A m \in PoolGaps(n) :
        Abs(TimeOf(Pool(n)[k].burst_end) - RecordShift(n).break_out_checkpoint)
            <= Abs(TimeOf(Pool(n)[m].burst_end) - RecordShift(n).break_out_checkpoint) }
ClosestInGaps(n) ==
    { k \in PoolGaps(n) : \A m \in PoolGaps(n) :
        Abs(TimeOf(Pool(n)[k + 1].burst_start) - RecordShift(n).break_in_on_time_cutoff)
            <= Abs(TimeOf(Pool(n)[m + 1].burst_start) - RecordShift(n).break_in_on_time_cutoff) }

\* C25: among the qualifying gaps equally close to break_out_checkpoint the
\* chronologically first gives Break Time Out, and among those equally close to the
\* break-in cutoff the chronologically first gives Break Time In
C25_FirstGapWinsTies ==
    Extracted =>
        \A n \in 1..Len(records) :
            PoolGaps(n) # {} =>
                /\ records[n].BreakTimeOut
                      = Strftime(Pool(n)[SetMin(ClosestOutGaps(n))].burst_end)
                /\ records[n].BreakTimeIn
                      = Strftime(Pool(n)[SetMin(ClosestInGaps(n)) + 1].burst_start)

\* checkpoint 10:00 and cutoff 10:20: the pool 09:55, 10:05, 10:15, 10:25 has two gaps
\* tied for Break Time Out (09:55, 10:05) and two tied for Break Time In (10:15, 10:25);
\* the record shows 09:55 and 10:15
C25_Witness ==
    /\ pc = "done"
    /\ \E n \in 1..Len(records) :
          /\ Cardinality(ClosestOutGaps(n)) = 2
          /\ Cardinality(ClosestInGaps(n)) = 2
          /\ PoolTimes(n) = << << 9, 55, 0 >>, << 10, 5, 0 >>, << 10, 15, 0 >>, << 10, 25, 0 >> >>
          /\ records[n].BreakTimeOut = << 9, 55, 0 >>
          /\ records[n].BreakTimeIn = << 10, 15, 0 >>


\* two entries of the history for the same person, calendar day and shift code
SameDayInstances(m, n) ==
    /\ m # n
    /\ opened[m].Name = opened[n].Name
    /\ opened[m].date = opened[n].date
    /\ opened[m].code = opened[n].code

\* C26: two instances of one shift code opened for one person on one calendar day stay
\* distinct: their ids differ, no burst lies in both and every burst carries the id of
\* the instance that absorbed it, and the extractor emits one record for each of them
C26_SameDayInstancesDistinct ==
    /\ \A m, n \in 1..Len(opened) :
          SameDayInstances(m, n) => opened[m].id # opened[n].id
    /\ pc = "scan" =>
          \A m, n \in 1..Len(opened) :
              SameDayInstances(m, n) =>
                  \A k \in 1..Len(shifts) :
                      /\ ~ ({ m, n } \subseteq Covering(k))
                      /\ m \in Covering(k) => shifts[k].shift_instance_id = opened[m].id
    /\ Extracted =>
          \A m \in 1..Len(opened) :
              Cardinality({ n \in 1..Len(records) :
                              /\ records[n].Name = config.valid_users[opened[m].Name].output_name
                              /\ records[n].Date = opened[m].date
                              /\ records[n].Shift = config.shifts[opened[m].code].display_name })
                  = Cardinality({ n \in 1..Len(opened) : n = m \/ SameDayInstances(m, n) })

\* check-in windows A 05:30-06:35 and C 05:50-06:05: the swipe at 05:52 stops the
\* instance opened at 05:40 and opens a second shift-A instance on the same day
C26_Witness ==
    /\ pc = "done"
    /\ \E m, n \in 1..Len(records) :
          /\ records[m].Name = records[n].Name
          /\ records[m].Date = records[n].Date
          /\ records[m].Shift = config.shifts["A"].display_name
          /\ records[n].Shift = config.shifts["A"].display_name
          /\ records[m].CheckIn = << 5, 40, 0 >>
          /\ records[n].CheckIn = << 5, 52, 0 >>


\* C28: when rows survive the filters and every burst is an orphan, process() ends
\* without an error and with no attendance record
C28_AllOrphansCompletes ==
    (Segmented /\ Len(swipes) > 0 /\ Len(opened) = 0) =>
        /\ pc # "KeyError"
        /\ Len(records) = 0


\* C29: when a record reports both a Break Time Out and a Break Time In, they are the
\* end of a candidate burst and the start of a candidate burst that is not earlier,
\* also when gap detection takes the two from different qualifying gaps
C29_BreakOutNotAfterBreakIn ==
    Extracted =>
        \A n \in 1..Len(records) :
            (records[n].BreakTimeOut # Blank /\ records[n].BreakTimeIn # Blank) =>
                \E a, b \in 1..Len(Pool(n)) :
                    /\ Strftime(Pool(n)[a].burst_end) = records[n].BreakTimeOut
                    /\ Strftime(Pool(n)[b].burst_start) = records[n].BreakTimeIn
                    /\ Pool(n)[a].burst_end <= Pool(n)[b].burst_start


\* the break search window of record n does not wrap midnight
NonWrappingSearch(n) == RecordShift(n).break_search_start <= RecordShift(n).break_search_end

=============================================================================
